---------------------------- MODULE Spec2Model ----------------------------
(***************************************************************************)
(* A model of the clapper command-line parser (src/clapper.go).            *)
(*                                                                         *)
(* Tokens, command names, flag names and argument names are strings.       *)
(* A Go interface{} value is a tagged record (see Nil, StrV, IntV, BoolV,  *)
(* SliceV): every value carries every payload field so that two values of  *)
(* different dynamic type can be compared, as Go compares interfaces.      *)
(* The Registry is a function from the registered command names to         *)
(* CommandConfig records; a Go map lookup "v, ok := m[k]" is                *)
(* "k \in DOMAIN m".  Pointers to Arg and Flag objects are their names in  *)
(* the owning CommandConfig.                                               *)
(***************************************************************************)
EXTENDS Integers, Sequences, FiniteSets, TLC

VARIABLES
    registry,   \* the Registry: command name -> CommandConfig
    values,     \* the token vector given to the last Parse call
    before,     \* the Registry as it was when the last Parse call began
    result,     \* what the last Parse call returned
    calls       \* the number of Parse calls made

vars == <<registry, values, before, result, calls>>

---------------------------------------------------------------------------
(* Strings (package strings).                                              *)

\* s[i] as a one-character string
Char(s, i) == SubSeq(s, i, i)

\* strings.HasPrefix
HasPrefix(s, p) == Len(s) >= Len(p) /\ SubSeq(s, 1, Len(p)) = p

\* strings.HasSuffix
HasSuffix(s, p) == Len(s) >= Len(p) /\ SubSeq(s, Len(s) - Len(p) + 1, Len(s)) = p

\* strings.Index for a one-character separator; 0 when absent
Index(s, c) ==
    LET I == {i \in 1..Len(s) : Char(s, i) = c}
    IN  IF I = {} THEN 0 ELSE CHOOSE i \in I : \A j \in I : i <= j

\* strings.Contains for a one-character substring
Contains(s, c) == Index(s, c) # 0

\* strings.Split(s, sep) for a one-character separator
RECURSIVE Split(_, _)
Split(s, sep) ==
    LET i == Index(s, sep)
    IN  IF i = 0 THEN <<s>>
        ELSE <<SubSeq(s, 1, i - 1)>> \o Split(SubSeq(s, i + 1, Len(s)), sep)

\* strings.Split(s, ""): one string per character
SplitChars(s) == [i \in 1..Len(s) |-> Char(s, i)]

\* strings.TrimLeft(s, c) for a one-character cutset
RECURSIVE TrimLeft(_, _)
TrimLeft(s, c) ==
    IF Len(s) > 0 /\ Char(s, 1) = c THEN TrimLeft(SubSeq(s, 2, Len(s)), c) ELSE s

\* strings.TrimRight(s, c) for a cutset holding the one character c
RECURSIVE TrimRight(_, _)
TrimRight(s, c) ==
    IF Len(s) > 0 /\ Char(s, Len(s)) = c THEN TrimRight(SubSeq(s, 1, Len(s) - 1), c) ELSE s

\* strings.Trim(s, c) for a one-character cutset
Trim(s, c) == TrimRight(TrimLeft(s, c), c)

\* strings.ReplaceAll(s, " ", "")
RECURSIVE removeWhitespaces(_)
removeWhitespaces(value) ==
    IF Len(value) = 0 THEN value
    ELSE (IF Char(value, 1) = " " THEN "" ELSE Char(value, 1))
            \o removeWhitespaces(SubSeq(value, 2, Len(value)))

\* strings.Trim(value, ""): an empty cutset trims nothing
trimWhitespaces(value) == value

---------------------------------------------------------------------------
(* Token classifier.                                                       *)

isFlag(value) == Len(value) >= 2 /\ HasPrefix(value, "-")

isShortFlag(value) == isFlag(value) /\ Len(value) = 2 /\ ~HasPrefix(value, "--")

\* isUnknownFlag without the test for a third dash
isUnknownFlagTwoDashes(value) ==
    IF Len(value) >= 2
    THEN IF Len(value) = 2
         THEN ~HasPrefix(value, "-") \/ HasPrefix(value, "--")
         ELSE ~HasPrefix(value, "--")
    ELSE FALSE

isUnknownFlag(value) ==
    IF Len(value) >= 2
    THEN IF Len(value) = 2
         THEN ~HasPrefix(value, "-") \/ HasPrefix(value, "--")
         ELSE ~HasPrefix(value, "--") \/ HasPrefix(value, "---")
    ELSE FALSE

isVariadicArgument(value) ==
    IF ~isFlag(value) /\ HasSuffix(value, "...")
    THEN [ok |-> TRUE, argName |-> TrimRight(value, ".")]
    ELSE [ok |-> FALSE, argName |-> ""]

---------------------------------------------------------------------------
(* Token normalizer.                                                       *)

\* parts[1:] with "-" put before each remaining character
SplitShortCluster(s) ==
    LET parts == SplitChars(s)
    IN  [i \in 1..(Len(parts) - 1) |-> "-" \o parts[i + 1]]

\* no short-flag cluster is broken apart
detectSplitCombinedNever(s) == <<s>>

detectSplitCombined(s) ==
    IF Contains(s, "=") THEN <<s>>
    ELSE IF HasPrefix(s, "--") THEN <<s>>
    ELSE IF HasPrefix(s, "-") THEN SplitShortCluster(s)
    ELSE <<s>>

\* the parts of an assignment that are not blank
RECURSIVE NonBlank(_)
NonBlank(parts) ==
    IF parts = <<>> THEN <<>>
    ELSE (IF Trim(Head(parts), " ") # "" THEN <<Head(parts)>> ELSE <<>>)
            \o NonBlank(Tail(parts))

\* the inner loop of formatCommandValues, over the pieces of one raw token
RECURSIVE FormatPieces(_)
FormatPieces(pieces) ==
    IF pieces = <<>> THEN <<>>
    ELSE (IF isFlag(Head(pieces)) THEN NonBlank(Split(Head(pieces), "="))
          ELSE <<Head(pieces)>>)
            \o FormatPieces(Tail(pieces))

RECURSIVE formatCommandValues(_)
formatCommandValues(vs) ==
    IF vs = <<>> THEN <<>>
    ELSE FormatPieces(detectSplitCombined(Head(vs))) \o formatCommandValues(Tail(vs))

nextValue(slice) ==
    IF Len(slice) = 0 THEN [v |-> "", newSlice |-> <<>>]
    ELSE [v |-> slice[1], newSlice |-> Tail(slice)]

---------------------------------------------------------------------------
(* Values: a Go interface{} holding nil, a bool, a string, an int, or a    *)
(* slice of one of these.                                                  *)

Nil == [t |-> "nil", elem |-> "", s |-> "", i |-> 0, b |-> FALSE, l |-> <<>>]

StrV(x) == [Nil EXCEPT !.t = "string", !.s = x]

IntV(n) == [Nil EXCEPT !.t = "int", !.i = n]

BoolV(x) == [Nil EXCEPT !.t = "bool", !.b = x]

\* a slice whose element type is elem
SliceV(elem, items) == [Nil EXCEPT !.t = "slice", !.elem = elem, !.l = items]

\* a time.Time, whose Kind is reflect.Struct: i counts the minutes of its
\* year, month, day, hour and minute
TimeV(year, month, day, hour, min) ==
    [Nil EXCEPT !.t = "time.Time",
                !.i = (((year * 12 + (month - 1)) * 31 + (day - 1)) * 24 + hour) * 60 + min]

\* reflect.TypeOf(a) == reflect.TypeOf(b)
SameType(a, b) == a.t = b.t /\ a.elem = b.elem

---------------------------------------------------------------------------
(* Errors.  Name is UnknownCommand.Name, UnknownFlag.Name, the Name of     *)
(* BadArgument.Arg, or the token a strconv error quotes (NumError.Num).    *)

NoErr == [type |-> "nil", Name |-> "", Message |-> ""]

UnknownCommand(name) == [type |-> "UnknownCommand", Name |-> name, Message |-> ""]

UnknownFlag(name) == [type |-> "UnknownFlag", Name |-> name, Message |-> ""]

BadArgument(arg, message) == [type |-> "BadArgument", Name |-> arg, Message |-> message]

\* *strconv.NumError, as strconv.Atoi and strconv.ParseBool return it
NumError(func, num) == [type |-> "NumError", Name |-> num, Message |-> func]

---------------------------------------------------------------------------
(* Type coercion.                                                          *)

Digits == <<"0", "1", "2", "3", "4", "5", "6", "7", "8", "9">>

IsDigit(c) == \E d \in 1..Len(Digits) : Digits[d] = c

DigitValue(c) == (CHOOSE d \in 1..Len(Digits) : Digits[d] = c) - 1

\* the value of a string of decimal digits
RECURSIVE DecimalValue(_)
DecimalValue(s) ==
    IF Len(s) = 0 THEN 0
    ELSE 10 * DecimalValue(SubSeq(s, 1, Len(s) - 1)) + DigitValue(Char(s, Len(s)))

\* strconv.Atoi: an optional sign, then one or more decimal digits
Atoi(s) ==
    LET signed == Len(s) > 0 /\ Char(s, 1) \in {"+", "-"}
        body   == IF signed THEN SubSeq(s, 2, Len(s)) ELSE s
        ok     == Len(body) > 0 /\ \A k \in 1..Len(body) : IsDigit(Char(body, k))
    IN  IF ok
        THEN [rv |-> IntV(IF signed /\ Char(s, 1) = "-"
                         THEN 0 - DecimalValue(body) ELSE DecimalValue(body)),
              err |-> NoErr]
        ELSE [rv |-> IntV(0), err |-> NumError("Atoi", s)]

\* strconv.ParseBool
ParseBool(s) ==
    IF s \in {"1", "t", "T", "TRUE", "true", "True"}
    THEN [rv |-> BoolV(TRUE), err |-> NoErr]
    ELSE IF s \in {"0", "f", "F", "FALSE", "false", "False"}
    THEN [rv |-> BoolV(FALSE), err |-> NoErr]
    ELSE [rv |-> BoolV(FALSE), err |-> NumError("ParseBool", s)]

\* *time.ParseError, as time.Parse returns it
ParseError(value) == [type |-> "ParseError", Name |-> value, Message |-> "Parse"]

\* the days of a month of a year (package time)
daysIn(month, year) ==
    IF month = 2
    THEN (IF year % 4 = 0 /\ (year % 100 # 0 \/ year % 400 = 0) THEN 29 ELSE 28)
    ELSE IF month \in {4, 6, 9, 11} THEN 30 ELSE 31

\* the characters from..to of s are decimal digits
AllDigits(s, from, to) == \A k \in from..to : IsDigit(Char(s, k))

\* the number the characters from..to of s write
Field(s, from, to) == DecimalValue(SubSeq(s, from, to))

\* time.Parse("2006-01-02 03:04", value): a four-digit year, "-", a
\* two-digit month, "-", a two-digit day, " ", a two-digit hour of the
\* twelve-hour clock (03 in the layout: 00 to 12), ":", a two-digit minute,
\* and no text after it; the zero Time with the error otherwise
ParseTime(value) ==
    IF /\ Len(value) = 16
       /\ AllDigits(value, 1, 4) /\ Char(value, 5) = "-"
       /\ AllDigits(value, 6, 7) /\ Char(value, 8) = "-"
       /\ AllDigits(value, 9, 10) /\ Char(value, 11) = " "
       /\ AllDigits(value, 12, 13) /\ Char(value, 14) = ":"
       /\ AllDigits(value, 15, 16)
       /\ Field(value, 6, 7) \in 1..12
       /\ Field(value, 9, 10) \in 1..daysIn(Field(value, 6, 7), Field(value, 1, 4))
       /\ Field(value, 12, 13) <= 12
       /\ Field(value, 15, 16) <= 59
    THEN [rv |-> TimeV(Field(value, 1, 4), Field(value, 6, 7), Field(value, 9, 10),
                       Field(value, 12, 13), Field(value, 15, 16)),
          err |-> NoErr]
    ELSE [rv |-> TimeV(1, 1, 1, 0, 0), err |-> ParseError(value)]

\* the kind convert switches on: the default's, or its element's for a slice
ConvertKind(defaults) == IF defaults.t = "slice" THEN defaults.elem ELSE defaults.t

convert(i, defaults) ==
    CASE ConvertKind(defaults) = "bool"   -> ParseBool(i)
      [] ConvertKind(defaults) = "string" -> [rv |-> StrV(i), err |-> NoErr]
      [] ConvertKind(defaults) = "int"    -> Atoi(i)
      [] ConvertKind(defaults) = "time.Time" -> ParseTime(i)
      [] OTHER                            -> [rv |-> Nil, err |-> NoErr]

---------------------------------------------------------------------------
(* Validation.                                                             *)

validateElement(val, vals) ==
    IF vals.t = "slice"
    THEN \E k \in 1..Len(vals.l) : val = vals.l[k]
    ELSE SameType(val, vals)

\* the first element of a slice value that fails validateElement, or 0
FirstIllegal(a) ==
    LET I == {k \in 1..Len(a.value.l) : ~validateElement(a.value.l[k], a.defaultValue)}
    IN  IF I = {} THEN 0 ELSE CHOOSE k \in I : \A j \in I : k <= j

\* validateParams on a non-nil *Arg
validateParams(a) ==
    IF a.value = Nil THEN BadArgument(a.Name, "parameter requires argument")
    ELSE IF a.value.t = "slice"
    THEN IF FirstIllegal(a) = 0 THEN NoErr ELSE BadArgument(a.Name, "illegal value")
    ELSE IF ~validateElement(a.value, a.defaultValue)
    THEN BadArgument(a.Name, "illegal value")
    ELSE NoErr

---------------------------------------------------------------------------
(* Registration.                                                           *)

\* a Go map with no entries
EmptyMap == [k \in {} |-> Nil]

\* the CommandConfig Register constructs
NewCommandConfig(commandName) ==
    [Name |-> commandName, Flags |-> EmptyMap, flagsShort |-> EmptyMap,
     Args |-> EmptyMap, ArgNames |-> <<>>]

\* Registry.Register: the registry after the call
Register(reg, name) ==
    LET commandName == removeWhitespaces(name)
    IN  IF commandName \in DOMAIN reg THEN reg
        ELSE (commandName :> NewCommandConfig(commandName)) @@ reg

\* the Arg AddArg constructs
NewArg(name, defaultValue) ==
    LET dv == IF defaultValue.t = "string"
              THEN StrV(trimWhitespaces(defaultValue.s)) ELSE defaultValue
        va == isVariadicArgument(name)
    IN  [Name |-> IF va.ok THEN va.argName ELSE name,
         isVariadic |-> va.ok, defaultValue |-> dv, value |-> Nil]

\* CommandConfig.AddArg: the CommandConfig after the call
AddArg(cfg, name0, defaultValue) ==
    LET name == removeWhitespaces(name0)
        rv   == NewArg(name, defaultValue)
    IN  IF name \in DOMAIN cfg.Args THEN cfg
        ELSE [cfg EXCEPT !.Args = (rv.Name :> rv) @@ cfg.Args,
                         !.ArgNames = Append(cfg.ArgNames, rv.Name)]

\* the Flag AddFlag constructs for a name already stripped of "no-"
NewFlag(name, isInverted, shortName, defaultValue) ==
    LET dv == CASE defaultValue.t = "bool" ->
                     (IF isInverted THEN BoolV(~defaultValue.b) ELSE defaultValue)
                [] defaultValue.t = "string" -> StrV(trimWhitespaces(defaultValue.s))
                [] OTHER -> defaultValue
        va == isVariadicArgument(name)
    IN  [Name |-> IF va.ok THEN va.argName ELSE name,
         isVariadic |-> va.ok, defaultValue |-> dv, value |-> Nil,
         ShortName |-> removeWhitespaces(shortName)]

\* the error AddFlag returns ("" for nil)
AddFlagError(cfg, name0, shortName, defaultValue) ==
    LET stripped   == removeWhitespaces(name0)
        isInverted == HasPrefix(stripped, "no-")
        name       == IF isInverted THEN SubSeq(stripped, 4, Len(stripped)) ELSE stripped
        l          == Len(removeWhitespaces(shortName))
    IN  IF defaultValue.t # "bool" /\ isInverted
        THEN "non-boolean arguments can not be inverted"
        ELSE IF name \in DOMAIN cfg.Flags THEN ""
        ELSE IF l > 1 THEN "short names must be one character"
        ELSE IF l = 1 /\ isInverted THEN "inverted flags may not have short versions"
        ELSE ""

\* CommandConfig.AddFlag: the CommandConfig after the call
AddFlag(cfg, name0, shortName, defaultValue) ==
    LET stripped   == removeWhitespaces(name0)
        isInverted == HasPrefix(stripped, "no-")
        name       == IF isInverted THEN SubSeq(stripped, 4, Len(stripped)) ELSE stripped
        rv         == NewFlag(name, isInverted, shortName, defaultValue)
        l          == Len(rv.ShortName)
    IN  IF AddFlagError(cfg, name0, shortName, defaultValue) # "" THEN cfg
        ELSE IF name \in DOMAIN cfg.Flags THEN cfg
        ELSE [cfg EXCEPT !.flagsShort = IF l = 1 THEN (rv.ShortName :> rv.Name) @@ @
                                             ELSE @,
                         !.Flags = (rv.Name :> rv) @@ @]

---------------------------------------------------------------------------
(* Command resolution.                                                     *)

\* isRootCommand without the test that the root command declares arguments
isRootCommandAnyRoot(vs, reg) ==
    IF "" \notin DOMAIN reg THEN FALSE
    ELSE IF Len(vs) = 0 \/ isFlag(vs[1]) THEN TRUE
    ELSE vs[1] \notin DOMAIN reg

isRootCommand(vs, reg) ==
    IF "" \notin DOMAIN reg THEN FALSE
    ELSE IF Len(vs) = 0 \/ isFlag(vs[1]) THEN TRUE
    ELSE Cardinality(DOMAIN reg[""].Args) > 0 /\ vs[1] \notin DOMAIN reg

---------------------------------------------------------------------------
(* Binding.  One step of the loop of Parse yields                          *)
(*   cfg   the CommandConfig as the step leaves it,                        *)
(*   rest  the values still to process,                                    *)
(*   err   the error the step returns (NoErr to go on),                    *)
(*   panic whether the step dereferences a nil *Arg.                       *)

Continue(cfg, rest) == [cfg |-> cfg, rest |-> rest, err |-> NoErr, panic |-> FALSE]

Return(cfg, err) == [cfg |-> cfg, rest |-> <<>>, err |-> err, panic |-> FALSE]

Panic(cfg) == [cfg |-> cfg, rest |-> <<>>, err |-> NoErr, panic |-> TRUE]

SetFlagValue(cfg, flagName, v) == [cfg EXCEPT !.Flags[flagName].value = v]

SetArgValue(cfg, argName, v) == [cfg EXCEPT !.Args[argName].value = v]

\* a long boolean flag that is set whether or not it is inverted
LongBoolValueSet(isInv) == BoolV(TRUE)

\* the value a long boolean flag takes
LongBoolValue(isInv) == BoolV(~isInv)

\* the value a short boolean flag takes
ShortBoolValue == BoolV(TRUE)

\* the error for a short flag that the short-name map does not hold
ShortFlagUnknown(value, name) == UnknownFlag(value)

\* the error naming the flag without its dashes
LongFlagUnknownBare(value, name) == UnknownFlag(name)

\* the error for a long flag that the flag map does not hold
LongFlagUnknown(value, name) == UnknownFlag(value)

\* the step's outcome for the error validateParams returned
Validated(cfg, rest, err) ==
    IF err # NoErr THEN Return(cfg, err) ELSE Continue(cfg, rest)

\* validateParams(&flag.Arg), the last statement of the flag branch
ValidateFlag(cfg, flagName, rest) ==
    Validated(cfg, rest, validateParams(cfg.Flags[flagName]))

\* flag.value, err = convert(nextValue, flag.defaultValue), given what
\* convert returned as c
StoreFlagValue(cfg, flagName, c, rest) ==
    IF c.err # NoErr THEN Return(SetFlagValue(cfg, flagName, c.rv), c.err)
    ELSE ValidateFlag(SetFlagValue(cfg, flagName, c.rv), flagName, rest)

\* a flag's value, given the lookahead nv: the next token for a
\* non-boolean flag, then validation
TakeFlagValue(cfg, flagName, isBool, rest, nv) ==
    IF ~isBool /\ Len(nv.v) # 0 /\ ~isFlag(nv.v)
    THEN StoreFlagValue(cfg, flagName,
                        convert(nv.v, cfg.Flags[flagName].defaultValue), nv.newSlice)
    ELSE IF ~isBool /\ Len(nv.v) = 0
    THEN Return(cfg, BadArgument(flagName,
                    "parameter requires an argument, none was provided"))
    ELSE ValidateFlag(cfg, flagName, rest)

\* the short-flag branch once the short-name map gave flagName
BindKnownShortFlag(cfg, flagName, isBool, rest) ==
    TakeFlagValue(IF isBool THEN SetFlagValue(cfg, flagName, ShortBoolValue) ELSE cfg,
                  flagName, isBool, rest, nextValue(rest))

BindShortFlag(cfg, value, name, rest) ==
    IF name \notin DOMAIN cfg.flagsShort
    THEN Return(cfg, ShortFlagUnknown(value, name))
    ELSE BindKnownShortFlag(cfg, cfg.flagsShort[name],
            cfg.Flags[cfg.flagsShort[name]].defaultValue.t = "bool", rest)

\* the long-flag branch once the flag map gave the flag called name
BindKnownLongFlag(cfg, name, isInv, isBool, rest) ==
    IF isInv /\ ~isBool
    THEN Return(cfg, BadArgument(name, "non-bool flag"))
    ELSE TakeFlagValue(IF isBool THEN SetFlagValue(cfg, name, LongBoolValue(isInv))
                       ELSE cfg,
                       name, isBool, rest, nextValue(rest))

\* the long-flag branch for a name stripped of its dashes and of "no-"
BindLongName(cfg, value, name, isInv, rest) ==
    IF name \notin DOMAIN cfg.Flags
    THEN Return(cfg, LongFlagUnknown(value, name))
    ELSE BindKnownLongFlag(cfg, name, isInv,
                           cfg.Flags[name].defaultValue.t = "bool", rest)

BindLongFlag(cfg, value, trimmed, rest) ==
    IF HasPrefix(trimmed, "no-")
    THEN BindLongName(cfg, value, SubSeq(trimmed, 4, Len(trimmed)), TRUE, rest)
    ELSE BindLongName(cfg, value, trimmed, FALSE, rest)

BindFlag(cfg, value, rest) ==
    IF isShortFlag(value) THEN BindShortFlag(cfg, value, TrimLeft(value, "-"), rest)
    ELSE BindLongFlag(cfg, value, TrimLeft(value, "-"), rest)

\* reflect.Append(slice, conval)
AppendValue(slice, conval) == SliceV(slice.elem, Append(slice.l, conval))

\* the value the loop body leaves in an argument it does not bind and
\* break on: the slice made for an unset variadic argument, with conval
\* appended when the argument is the last one and variadic
Accumulate(a, isLast, conval) ==
    IF isLast /\ a.isVariadic
    THEN AppendValue(IF a.value = Nil THEN SliceV(conval.t, <<>>) ELSE a.value, conval)
    ELSE IF a.value = Nil THEN SliceV(conval.t, <<>>)
    ELSE a.value

\* the loop over ArgNames from position index on; arg is the *Arg the
\* loop variable holds ("" for nil)
RECURSIVE ArgLoop(_, _, _, _)
\* one iteration, given the argument's name and what convert returned as c
ArgStep(cfg, value, index, argName, c) ==
    IF c.err # NoErr THEN [cfg |-> cfg, arg |-> argName, err |-> c.err]
    ELSE IF cfg.Args[argName].value = Nil /\ ~cfg.Args[argName].isVariadic
    THEN [cfg |-> SetArgValue(cfg, argName, c.rv), arg |-> argName, err |-> NoErr]
    ELSE ArgLoop(SetArgValue(cfg, argName,
                    Accumulate(cfg.Args[argName], index = Len(cfg.ArgNames), c.rv)),
                 value, index + 1, argName)

ArgLoop(cfg, value, index, arg) ==
    IF index > Len(cfg.ArgNames) THEN [cfg |-> cfg, arg |-> arg, err |-> NoErr]
    ELSE ArgStep(cfg, value, index, cfg.ArgNames[index],
                 convert(value, cfg.Args[cfg.ArgNames[index]].defaultValue))

\* the argument branch after the loop, which left r
ValidateArg(r, rest) ==
    IF r.err # NoErr THEN Return(r.cfg, r.err)
    ELSE IF r.arg = "" THEN Panic(r.cfg)
    ELSE Validated(r.cfg, rest, validateParams(r.cfg.Args[r.arg]))

BindArg(cfg, value, rest) == ValidateArg(ArgLoop(cfg, value, 1, ""), rest)

\* the loop of Parse over the values to process
RECURSIVE Bind(_, _)
\* the loop goes on after a step that left r, unless the step returned
BindRest(r) == IF r.err # NoErr \/ r.panic THEN r ELSE Bind(r.cfg, r.rest)

\* one pass of the loop, given what nextValue returned as nv
BindValue(cfg, nv) ==
    IF Len(nv.v) = 0 THEN Continue(cfg, nv.newSlice)
    ELSE IF isFlag(nv.v) THEN BindRest(BindFlag(cfg, nv.v, nv.newSlice))
    ELSE BindRest(BindArg(cfg, nv.v, nv.newSlice))

Bind(cfg, valuesToProcess) == BindValue(cfg, nextValue(valuesToProcess))

\* the first value that is a flag of invalid structure, or 0
FirstMalformed(vs) ==
    LET I == {k \in 1..Len(vs) : isFlag(vs[k]) /\ isUnknownFlag(vs[k])}
    IN  IF I = {} THEN 0 ELSE CHOOSE k \in I : \A j \in I : k <= j

\* what a Parse call leaves: the registry, and what it returns.  kind is
\* "ok" (a *CommandConfig and a nil error), "err" (an error) or "panic";
\* commandName is the command name Parse resolved.
Outcome(reg, kind, commandName, err) ==
    [registry |-> reg,
     result |-> [kind |-> kind, commandName |-> commandName, err |-> err]]

\* Parse after its loop, which left b
Bound(reg, commandName, b) ==
    Outcome([reg EXCEPT ![commandName] = b.cfg],
            IF b.panic THEN "panic" ELSE IF b.err # NoErr THEN "err" ELSE "ok",
            commandName, b.err)

\* Parse from the check for flags of invalid structure on; m is the
\* first such value
ParseValues(reg, commandName, valuesToProcess, m) ==
    IF m # 0 THEN Outcome(reg, "err", commandName, UnknownFlag(valuesToProcess[m]))
    ELSE IF commandName \notin DOMAIN reg
    THEN Outcome(reg, "err", commandName, UnknownCommand(commandName))
    ELSE Bound(reg, commandName, Bind(reg[commandName], valuesToProcess))

\* Parse once the command name and the values to process are known
ParseCommand(reg, commandName, valuesToProcess) ==
    ParseValues(reg, commandName, formatCommandValues(valuesToProcess),
                FirstMalformed(formatCommandValues(valuesToProcess)))

Parse(reg, vs) ==
    IF isRootCommand(vs, reg) THEN ParseCommand(reg, "", vs)
    ELSE ParseCommand(reg, nextValue(vs).v, nextValue(vs).newSlice)

---------------------------------------------------------------------------
(* Registries the tests build.                                             *)

\* sub.AddArg(name, defaultValue) on the CommandConfig registered as cmd
WithArg(reg, cmd, name, defaultValue) ==
    [reg EXCEPT ![cmd] = AddArg(@, name, defaultValue)]

\* sub.AddFlag(name, shortName, defaultValue) on the CommandConfig registered as cmd
WithFlag(reg, cmd, name, shortName, defaultValue) ==
    [reg EXCEPT ![cmd] = AddFlag(@, name, shortName, defaultValue)]

\* NewRegistry()
NewRegistry == EmptyMap

\* the root command of setup() in clapper_test.go
SetupRoot(reg) ==
    WithFlag(WithFlag(WithFlag(WithFlag(WithArg(Register(reg, ""),
        "", "output", StrV("")),
        "", "force", "f", BoolV(FALSE)),
        "", "verbose", "v", BoolV(FALSE)),
        "", "version", "V", StrV("")),
        "", "dir", "", StrV("/var/users"))

\* the "info" command of setup() in clapper_test.go
SetupInfo(reg) ==
    WithFlag(WithFlag(WithFlag(WithFlag(WithArg(WithArg(WithArg(Register(reg, "info"),
        "info", "category", SliceV("string", <<StrV("manager"), StrV("student")>>)),
        "info", "username", StrV("")),
        "info", "subjects...", StrV("")),
        "info", "verbose", "v", BoolV(FALSE)),
        "info", "version", "V", StrV("1.0.1")),
        "info", "output", "o", StrV("./")),
        "info", "no-clean", "", BoolV(TRUE))

\* the registry of setup() in clapper_test.go: root, "info" and "ghost"
SetupRegistry == Register(SetupInfo(SetupRoot(NewRegistry)), "ghost")

\* the registry of TestCombinedFlags
CombinedRegistry ==
    WithFlag(WithFlag(WithFlag(Register(NewRegistry, ""),
        "", "alpha", "a", BoolV(TRUE)),
        "", "bravo", "b", BoolV(TRUE)),
        "", "charlie", "c", StrV("none"))

---------------------------------------------------------------------------
(* The state machine: a registry, and Parse calls on it.                   *)

NoResult == [kind |-> "none", commandName |-> "", err |-> NoErr]

\* the state after a Parse call on vs that left out
Returned(vs, out) ==
    /\ values' = vs
    /\ before' = registry
    /\ registry' = out.registry
    /\ result' = out.result
    /\ calls' = calls + 1

\* registry.Parse(vs)
DoParse(vs) == Returned(vs, Parse(registry, vs))

\* the token vectors of at most n tokens drawn from pool
Vectors(pool, n) == UNION {[1..k -> pool] : k \in 0..n}

\* the longest token vector a Parse call is given
MaxTokens == 4

\* a registry is fresh when no Parse call has been made on it
Fresh == calls = 0

InitWith(registries) ==
    /\ registry \in registries
    /\ values = <<>>
    /\ before = registry
    /\ result = NoResult
    /\ calls = 0

---------------------------------------------------------------------------
(* The program: it builds a registry with Register, AddArg and AddFlag,    *)
(* then calls Parse on it.                                                 *)

\* the command names, declarations and tokens the calls draw from
CommandNames == {"", "run"}

ArgDecls == {<<"file", StrV("")>>, <<"rest...", IntV(0)>>}

FlagDecls ==
    {<<"verbose", "v", BoolV(FALSE)>>, <<"level", "l", IntV(0)>>,
     <<"version", "v", StrV("")>>}

Tokens == {"run", "x", "-v", "--level", "7"}

\* the most arguments declared for a command
MaxArgs == 2

\* the longest token vector given to a registry built step by step
MaxArgv == 2

\* the most Parse calls made on a registry
MaxCalls == 1

Init == InitWith({NewRegistry})

\* registry.Register(name)
DoRegister(name) ==
    /\ Fresh
    /\ registry' = Register(registry, name)
    /\ UNCHANGED <<values, before, result, calls>>

\* registry[cmd].AddArg(name, defaultValue)
DoAddArg(cmd, name, defaultValue) ==
    /\ Fresh
    /\ cmd \in DOMAIN registry
    /\ Len(registry[cmd].ArgNames) < MaxArgs
    /\ registry' = WithArg(registry, cmd, name, defaultValue)
    /\ UNCHANGED <<values, before, result, calls>>

\* registry[cmd].AddFlag(name, shortName, defaultValue)
DoAddFlag(cmd, name, shortName, defaultValue) ==
    /\ Fresh
    /\ cmd \in DOMAIN registry
    /\ registry' = WithFlag(registry, cmd, name, shortName, defaultValue)
    /\ UNCHANGED <<values, before, result, calls>>

\* registry.Parse(vs), MaxCalls times at most
DoParseCall(vs) == calls < MaxCalls /\ DoParse(vs)

Next ==
    \/ \E name \in CommandNames : DoRegister(name)
    \/ \E cmd \in CommandNames, a \in ArgDecls : DoAddArg(cmd, a[1], a[2])
    \/ \E cmd \in CommandNames, f \in FlagDecls : DoAddFlag(cmd, f[1], f[2], f[3])
    \/ \E vs \in Vectors(Tokens, MaxArgv) : DoParseCall(vs)

Spec == Init /\ [][Next]_vars

---------------------------------------------------------------------------
(* Command resolution: one Parse call on a registry with a root command    *)
(* that declares an argument, with a root command that declares none, or   *)
(* with no root command.                                                   *)

\* a root command with one flag and no argument, and the commands "info"
\* (one argument) and "ghost" (nothing declared)
BareRootRegistry ==
    Register(WithArg(Register(WithFlag(Register(NewRegistry, ""),
        "", "verbose", "v", BoolV(FALSE)),
        "info"), "info", "username", StrV("")),
        "ghost")

\* the same with an argument declared for the root command
ArgRootRegistry == WithArg(BareRootRegistry, "", "output", StrV(""))

\* no root command: only "info" (one argument, one flag)
NoRootRegistry ==
    WithFlag(WithArg(Register(NewRegistry, "info"),
        "info", "username", StrV("")),
        "info", "verbose", "v", BoolV(FALSE))

ResolveRegistries == {BareRootRegistry, ArgRootRegistry, NoRootRegistry}

ResolveTokens == {"info", "ghost", "userinfo", "-v", "--bogus", "---x", ""}

InitResolve == InitWith(ResolveRegistries)

NextResolve == Fresh /\ \E vs \in Vectors(ResolveTokens, MaxTokens) : DoParse(vs)

SpecResolve == InitResolve /\ [][NextResolve]_vars


\* the tokens of a vector, as a set
Range(vs) == {vs[k] : k \in 1..Len(vs)}

\* a Parse call has been made
Parsed == result # NoResult

\* the CommandConfig Parse resolved, as the call left it
Resolved == registry[result.commandName]

\* the values of the declared arguments of a CommandConfig
ArgValues(cfg) == {cfg.Args[a].value : a \in DOMAIN cfg.Args}

\* no value of the normalized vector is a flag of invalid structure
WellFormed(vs) == FirstMalformed(formatCommandValues(vs)) = 0

\* the tokens after the first one
Rest == IF values = <<>> THEN <<>> ELSE Tail(values)

\* the first token was taken as the command name: no argument of the
\* resolved command holds it, unless it occurs again among the other tokens
FirstTokenNotBound ==
    (result.commandName \in DOMAIN registry /\ values # <<>>)
        => (StrV(values[1]) \in ArgValues(Resolved) => values[1] \in Range(Rest))

\* the three cases C6 lists, on the registry and vector of the last call
RootCase ==
    \/ Len(values) = 0
    \/ isFlag(values[1])
    \/ /\ values[1] \notin DOMAIN before
       /\ "" \in DOMAIN before
       /\ DOMAIN before[""].Args # {}

\* C6 as stated: Parse resolves to the root command exactly in the three
\* cases listed; in every other case the first token is consumed as the
\* sub-command name, is not bound as an argument, and an unregistered name
\* fails with UnknownCommand carrying it.
C6_ResolutionAsStated ==
    Parsed =>
        IF RootCase THEN result.commandName = ""
        ELSE /\ result.commandName = values[1]
             /\ result.commandName # ""
             /\ FirstTokenNotBound
             /\ values[1] \notin DOMAIN before
                    => result.err = UnknownCommand(values[1])

\* C6 amended: with the root command registered, Parse resolves to it
\* (consuming no token) exactly in the three cases listed; in every other
\* case, and always when no root command is registered, the first token
\* (the empty name for an empty vector) is consumed as the command name and
\* is not bound as an argument, so that an empty first token names the
\* root command too; an unregistered name fails with UnknownCommand carrying
\* it unless a remaining token is a flag of invalid structure, which is
\* reported first.
C6_Resolution ==
    Parsed =>
        IF "" \in DOMAIN before /\ RootCase
        THEN /\ result.commandName = ""
             /\ (result.kind = "ok" /\ values # <<>> /\ ~isFlag(values[1])
                    /\ values[1] # "")
                    => StrV(values[1]) \in ArgValues(Resolved)
        ELSE /\ result.commandName = (IF values = <<>> THEN "" ELSE values[1])
             /\ FirstTokenNotBound
             /\ (result.commandName \notin DOMAIN before /\ WellFormed(Rest))
                    => result.err = UnknownCommand(result.commandName)
             /\ (result.commandName \notin DOMAIN before /\ ~WellFormed(Rest))
                    => result.err.type = "UnknownFlag"

\* C6 witness: no root command is registered, the first token is a flag,
\* and Parse consumed it as the command name
C6_FlagAsCommandName ==
    /\ Parsed
    /\ "" \notin DOMAIN before
    /\ values # <<>>
    /\ isFlag(values[1])
    /\ result.err = UnknownCommand(values[1])

\* C7 as stated: Parse never crashes, whatever the registry and the token
\* vector: it returns a command or an error.
C7_ParseNeverPanics == result.kind # "panic"

\* C9 as stated: a token vector that contains the undeclared long flag
\* --bogus always yields UnknownFlag with the name "bogus", against any
\* schema.
C9_BogusAsStated ==
    (Parsed /\ "--bogus" \in Range(values)) => result.err = UnknownFlag("bogus")

\* the tokens before position k are all bound without error: none is
\* empty, and Parse succeeds on them alone
BoundBefore(k) ==
    /\ \A j \in 1..(k - 1) : values[j] # ""
    /\ Parse(before, SubSeq(values, 1, k - 1)).result.kind = "ok"

\* C9 amended: when binding reaches the undeclared long flag --bogus (the
\* tokens before it are bound without error by a registered command, and
\* no token of the vector is a flag of invalid structure), Parse yields
\* UnknownFlag whose Name is "--bogus", the token with its dashes.
C9_BogusReached ==
    Parsed =>
        \A k \in 1..Len(values) :
            (values[k] = "--bogus" /\ BoundBefore(k) /\ WellFormed(values))
                => (result.kind = "err" /\ result.err = UnknownFlag("--bogus"))

\* C9 witness: --bogus follows a command name and a declared flag, and is
\* reported with its dashes
C9_BogusAfterFlag ==
    /\ Parsed
    /\ Len(values) >= 3
    /\ values[3] = "--bogus"
    /\ values[2] = "-v"
    /\ BoundBefore(3)
    /\ result.err = UnknownFlag("--bogus")

---------------------------------------------------------------------------
(* Positional and variadic binding: Parse calls for the "info" command of  *)
(* setup(), whose arguments are category, username and subjects...         *)

SetupTokens == {"student", "math", "physics", "-", "-v", "--output", ""}

InitVariadic == InitWith({SetupRegistry})

NextVariadic ==
    Fresh /\ \E vs \in Vectors(SetupTokens, MaxTokens) : DoParse(<<"info">> \o vs)

SpecVariadic == InitVariadic /\ [][NextVariadic]_vars

\* the flag a flag token names in a CommandConfig ("" when it names none)
FlagNamed(cfg, tok) ==
    LET trimmed == TrimLeft(tok, "-")
        name == IF HasPrefix(trimmed, "no-") THEN SubSeq(trimmed, 4, Len(trimmed))
                ELSE trimmed
    IN  IF isShortFlag(tok)
        THEN (IF trimmed \in DOMAIN cfg.flagsShort THEN cfg.flagsShort[trimmed] ELSE "")
        ELSE (IF name \in DOMAIN cfg.Flags THEN name ELSE "")

\* the flag token at position k takes the next token as its value: it
\* names a declared flag that is not boolean and a non-flag token follows
TakesValue(cfg, vs, k) ==
    /\ FlagNamed(cfg, vs[k]) # ""
    /\ cfg.Flags[FlagNamed(cfg, vs[k])].defaultValue.t # "bool"
    /\ k < Len(vs)
    /\ ~isFlag(vs[k + 1])

\* the non-flag tokens of vs from position k on that no flag takes as its
\* value, in encounter order
RECURSIVE Positionals(_, _, _)
Positionals(cfg, vs, k) ==
    IF k > Len(vs) THEN <<>>
    ELSE IF isFlag(vs[k])
    THEN Positionals(cfg, vs, IF TakesValue(cfg, vs, k) THEN k + 2 ELSE k + 1)
    ELSE <<vs[k]>> \o Positionals(cfg, vs, k + 1)

\* the value that binding the positional tokens p in order leaves in the
\* i-th of n declared arguments, the last of them variadic
PositionalValue(p, i, n) ==
    IF i < n THEN (IF Len(p) >= i THEN StrV(p[i]) ELSE Nil)
    ELSE IF Len(p) >= n
    THEN SliceV("string", [k \in 1..(Len(p) - n + 1) |-> StrV(p[k + n - 1])])
    ELSE Nil

\* C1 as stated: for a command whose positional arguments are strings and
\* end with a variadic argument, a successful Parse leaves the i-th non-flag
\* token (not taken as a flag's value) in the i-th non-variadic argument and
\* every further one, in encounter order, in the variadic argument, wherever
\* flags and flag values are interleaved.
C1_PositionalBinding ==
    (Parsed /\ result.kind = "ok") =>
        LET cfg == Resolved
            p == Positionals(before[result.commandName], Rest, 1)
            n == Len(cfg.ArgNames)
        IN  \A i \in 1..n : cfg.Args[cfg.ArgNames[i]].value = PositionalValue(p, i, n)

---------------------------------------------------------------------------
(* Boolean flags: Parse calls on a root command whose boolean flags are    *)
(* declared with the defaults false (verbose), true (force) and, inverted, *)
(* true (no-clean).                                                        *)

BoolRegistry ==
    WithFlag(WithFlag(WithFlag(WithFlag(WithArg(Register(NewRegistry, ""),
        "", "output", StrV("")),
        "", "verbose", "v", BoolV(FALSE)),
        "", "force", "f", BoolV(TRUE)),
        "", "no-clean", "", BoolV(TRUE)),
        "", "dir", "", StrV("/var/users"))

BoolTokens ==
    {"-v", "--no-verbose", "--force", "--no-force", "--clean", "--no-clean", "--dir",
     "x", ""}

InitBool == InitWith({BoolRegistry})

NextBool == Fresh /\ \E vs \in Vectors(BoolTokens, MaxTokens) : DoParse(vs)

SpecBool == InitBool /\ [][NextBool]_vars

\* the token gives the flag f of cfg in its positive form, long or short
Sets(cfg, f, tok) ==
    \/ tok = "--" \o f
    \/ cfg.Flags[f].ShortName # "" /\ tok = "-" \o cfg.Flags[f].ShortName

\* the token gives the flag f in its inverted form
Clears(f, tok) == tok = "--no-" \o f

\* the position of the last occurrence of the flag f in vs, or 0
LastOccurrence(cfg, f, vs) ==
    LET I == {k \in 1..Len(vs) : Sets(cfg, f, vs[k]) \/ Clears(f, vs[k])}
    IN  IF I = {} THEN 0 ELSE CHOOSE k \in I : \A j \in I : j <= k

\* the declared boolean flags of a CommandConfig
BoolFlags(cfg) == {f \in DOMAIN cfg.Flags : cfg.Flags[f].defaultValue.t = "bool"}

\* C2: for every declared boolean flag, whatever its default and the valid
\* tokens around it (none of them empty), a successful Parse whose last
\* occurrence of the flag is --<name> or -x leaves its value true, and one
\* whose last occurrence is --no-<name> leaves it false.
C2_LastOccurrenceWins ==
    (Parsed /\ result.kind = "ok" /\ "" \notin Range(values)) =>
        \A f \in BoolFlags(Resolved) :
            LET k == LastOccurrence(Resolved, f, values)
            IN  k > 0 => Resolved.Flags[f].value = BoolV(Sets(Resolved, f, values[k]))

\* C2 witness: a flag declared true is given, then inverted, and ends
\* false, while a flag declared false is inverted, then given, and ends true
C2_SetThenCleared ==
    /\ Parsed
    /\ result.kind = "ok"
    /\ values = <<"--force", "--no-verbose", "--no-force", "-v">>
    /\ Resolved.Flags["force"].value = BoolV(FALSE)
    /\ Resolved.Flags["verbose"].value = BoolV(TRUE)

---------------------------------------------------------------------------
(* Combined short flags: Parse calls on the root command of                *)
(* TestCombinedFlags, and on the same with an argument declared.           *)

CombinedTokens == {"-abc", "-acb", "-ba", "-a", "-c", "value", ""}

InitCombined ==
    InitWith({CombinedRegistry, WithArg(CombinedRegistry, "", "file", StrV(""))})

NextCombined == Fresh /\ \E vs \in Vectors(CombinedTokens, MaxTokens) : DoParse(vs)

SpecCombined == InitCombined /\ [][NextCombined]_vars

\* a token that combines several short flags
IsCluster(tok) ==
    /\ HasPrefix(tok, "-")
    /\ ~HasPrefix(tok, "--")
    /\ ~Contains(tok, "=")
    /\ Len(tok) > 2

\* the letters of a cluster
Letters(tok) == [k \in 1..(Len(tok) - 1) |-> Char(tok, k + 1)]

\* the letters of a cluster, each as a short flag of its own
Separate(tok) == [k \in 1..(Len(tok) - 1) |-> "-" \o Char(tok, k + 1)]

\* the cluster made of the given letters
RECURSIVE Cluster(_)
Cluster(letters) ==
    IF letters = <<>> THEN "-"
    ELSE Cluster(SubSeq(letters, 1, Len(letters) - 1)) \o letters[Len(letters)]

\* vs with the tokens seq in the place of its k-th token
Replace(vs, k, seq) == SubSeq(vs, 1, k - 1) \o seq \o SubSeq(vs, k + 1, Len(vs))

\* what the last Parse call left and returned
Observed == [registry |-> registry, result |-> result]

\* the value of a flag of the root command after Parse on vs
RootFlagAfter(vs, f) == Parse(before, vs).registry[""].Flags[f].value

\* every letter of the cluster is the short name of a declared boolean flag
AllBool(cfg, tok) ==
    \A k \in 1..(Len(tok) - 1) :
        /\ FlagNamed(cfg, "-" \o Char(tok, k + 1)) # ""
        /\ cfg.Flags[FlagNamed(cfg, "-" \o Char(tok, k + 1))].defaultValue.t = "bool"

\* a cluster binds as its letters given separately, in that order
ClusterAsSeparate ==
    \A k \in 1..Len(values) :
        IsCluster(values[k])
            => Parse(before, Replace(values, k, Separate(values[k]))) = Observed

\* a cluster of boolean flags binds the same in every order of its letters,
\* and a successful Parse that reaches it (no token before it is empty)
\* leaves all of them true
BoolClusterAnyOrder ==
    \A k \in 1..Len(values) :
        (IsCluster(values[k]) /\ AllBool(before[""], values[k])) =>
            LET letters == Letters(values[k])
                n == Len(letters)
            IN  /\ \A q \in Permutations(1..n) :
                       Parse(before, Replace(values, k,
                             <<Cluster([i \in 1..n |-> letters[q[i]]])>>)) = Observed
                /\ (result.kind = "ok" /\ "" \notin Range(SubSeq(values, 1, k))) =>
                       \A i \in 1..n :
                           Resolved.Flags[FlagNamed(Resolved, "-" \o letters[i])].value
                               = BoolV(TRUE)

\* a non-boolean flag of a cluster takes the token that follows the cluster
\* when it is the last letter (and the tokens before the cluster are bound
\* without error), and is left as it was when it is not
ValueForLastLetter ==
    \A k \in 1..(Len(values) - 1) :
        (IsCluster(values[k]) /\ ~isFlag(values[k + 1]) /\ values[k + 1] # "") =>
            \A i \in 1..(Len(values[k]) - 1) :
                LET f == FlagNamed(before[""], "-" \o Char(values[k], i + 1))
                    nonBool == f # "" /\ before[""].Flags[f].defaultValue.t # "bool"
                IN  nonBool =>
                        IF i = Len(values[k]) - 1
                        THEN BoundBefore(k)
                                 => RootFlagAfter(SubSeq(values, 1, k + 1), f)
                                        = StrV(values[k + 1])
                        ELSE RootFlagAfter(SubSeq(values, 1, k + 1), f)
                                 = RootFlagAfter(SubSeq(values, 1, k - 1), f)

\* C3: a combined short-flag token -xyz binds exactly as the separate tokens
\* -x -y -z in that order; for declared boolean flags every ordering of the
\* letters gives the same result, all of them true; a non-boolean flag takes
\* the token following the cluster as its value only when it is the last
\* letter of the cluster.
C3_CombinedShortFlags ==
    Parsed => (ClusterAsSeparate /\ BoolClusterAnyOrder /\ ValueForLastLetter)

\* C3 witness: with a(bool), b(bool), c(string) the tokens -abc value give
\* a=true, b=true, c="value"
C3_ClusterThenValue ==
    /\ Parsed
    /\ result.kind = "ok"
    /\ values = <<"-abc", "value">>
    /\ Resolved.Flags["alpha"].value = BoolV(TRUE)
    /\ Resolved.Flags["bravo"].value = BoolV(TRUE)
    /\ Resolved.Flags["charlie"].value = StrV("value")

---------------------------------------------------------------------------
(* Assignment syntax: Parse calls on the registry of setup() with flags    *)
(* given as --name=value and -n=value.                                     *)

AssignTokens == {"--version=1.0", "--version=a=b", "--version=-", "-V=1.0", "--force", "x"}

InitAssign == InitWith({SetupRegistry})

NextAssign == Fresh /\ \E vs \in Vectors(AssignTokens, MaxTokens) : DoParse(vs)

SpecAssign == InitAssign /\ [][NextAssign]_vars

\* the flag of an assignment token
AssignFlag(tok) == SubSeq(tok, 1, Index(tok, "=") - 1)

\* the value string of an assignment token
AssignValue(tok) == SubSeq(tok, Index(tok, "=") + 1, Len(tok))

\* the token gives a declared flag of cfg that is not boolean in assignment form
IsAssignment(cfg, tok) ==
    /\ HasPrefix(tok, "-")
    /\ Contains(tok, "=")
    /\ isFlag(AssignFlag(tok))
    /\ FlagNamed(cfg, AssignFlag(tok)) # ""
    /\ cfg.Flags[FlagNamed(cfg, AssignFlag(tok))].defaultValue.t # "bool"

\* C4 as stated: for any declared non-boolean flag and any value string,
\* the one token --name=value (or -n=value) has exactly the outcome of the
\* two tokens --name value (-n value): the same success or failure and the
\* same values bound to every declaration.
C4_AssignmentAsTwoTokens ==
    (Parsed /\ result.commandName \in DOMAIN before) =>
        \A k \in 1..Len(values) :
            IsAssignment(before[result.commandName], values[k]) =>
                Parse(before, Replace(values, k,
                      <<AssignFlag(values[k]), AssignValue(values[k])>>)) = Observed

---------------------------------------------------------------------------
(* Choice sets and coercion: Parse calls on a root command with an int     *)
(* argument, an argument and a flag that are choices of strings, and a     *)
(* flag that is a choice of ints.                                          *)

ChoiceRegistry ==
    WithFlag(WithFlag(WithArg(WithArg(Register(NewRegistry, ""),
        "", "count", IntV(0)),
        "", "level", SliceV("string", <<StrV("lo"), StrV("hi")>>)),
        "", "color", "c", SliceV("string", <<StrV("red"), StrV("blue")>>)),
        "", "size", "s", SliceV("int", <<IntV(1), IntV(2)>>))

ChoiceTokens == {"1", "3", "lo", "mid", "abc", "red", "--color", "--size"}

InitChoice == InitWith({ChoiceRegistry})

NextChoice == Fresh /\ \E vs \in Vectors(ChoiceTokens, MaxTokens) : DoParse(vs)

SpecChoice == InitChoice /\ [][NextChoice]_vars

\* the token at position k of vs is the value of the flag before it
IsFlagValue(cfg, vs, k) ==
    k >= 2 /\ isFlag(vs[k - 1]) /\ ~isFlag(vs[k]) /\ TakesValue(cfg, vs, k - 1)

\* the declaration the token at position k of vs is supplied for, a flag
\* or an argument of cfg: [flag |-> TRUE, name |-> ..] for a flag's value,
\* [flag |-> FALSE, name |-> ..] for the i-th positional token and the i-th
\* argument (name "" where no declaration takes the token)
SuppliedFor(cfg, vs, k) ==
    IF isFlag(vs[k]) THEN [flag |-> FALSE, name |-> ""]
    ELSE IF IsFlagValue(cfg, vs, k)
    THEN [flag |-> TRUE, name |-> FlagNamed(cfg, vs[k - 1])]
    ELSE LET i == Len(Positionals(cfg, SubSeq(vs, 1, k), 1))
             n == Len(cfg.ArgNames)
         IN  [flag |-> FALSE,
              name |-> IF i <= n THEN cfg.ArgNames[i]
                       ELSE IF n > 0 /\ cfg.Args[cfg.ArgNames[n]].isVariadic
                       THEN cfg.ArgNames[n]
                       ELSE ""]

\* the default of a declaration
DefaultOf(cfg, d) ==
    IF d.flag THEN cfg.Flags[d.name].defaultValue ELSE cfg.Args[d.name].defaultValue

\* the token's coerced value equals some element of the choice set
InChoiceSet(tok, choices) ==
    /\ convert(tok, choices).err = NoErr
    /\ \E e \in 1..Len(choices.l) : choices.l[e] = convert(tok, choices).rv

\* the tokens before the one at position k, and before the flag that
\* takes it, are bound without error
BoundBeforeSupply(d, k) == BoundBefore(IF d.flag THEN k - 1 ELSE k)

\* C5 as stated: for every declaration whose default is a choice set, Parse
\* accepts a supplied token if and only if its coerced value equals some
\* element of the set; a token outside the set makes Parse fail with
\* BadArgument for that declaration.
C5_ChoiceSetDecides ==
    Parsed =>
        \A k \in 1..Len(values) :
            LET cfg == before[""]
                d == SuppliedFor(cfg, values, k)
                out == Parse(before, SubSeq(values, 1, k)).result
            IN  (d.name # "" /\ DefaultOf(cfg, d).t = "slice" /\ BoundBeforeSupply(d, k)) =>
                    IF InChoiceSet(values[k], DefaultOf(cfg, d))
                    THEN out.kind = "ok"
                    ELSE /\ out.kind = "err"
                         /\ out.err.type = "BadArgument"
                         /\ out.err.Name = d.name

\* C8 as stated: a token that cannot be coerced to the type of its flag or
\* argument makes Parse fail with BadArgument; every error Parse returns
\* is an UnknownCommand, an UnknownFlag or a BadArgument.
C8_ErrorKinds ==
    (Parsed /\ result.kind = "err") =>
        result.err.type \in {"UnknownCommand", "UnknownFlag", "BadArgument"}

---------------------------------------------------------------------------
(* Unknown flags: Parse calls on the registry of setup() with the flags of *)
(* TestUnregisteredFlag and TestUnsupportedAssignment among valid ones.    *)

UnknownTokens ==
    {"---version", "---v=1.0.0", "-version", "-d", "--directory", "-V", "1.0.1",
     "--force", ""}

InitUnknown == InitWith({SetupRegistry})

NextUnknown == Fresh /\ \E vs \in Vectors(UnknownTokens, MaxTokens) : DoParse(vs)

SpecUnknown == InitUnknown /\ [][NextUnknown]_vars

\* the token stream of the resolved command: the normalized tokens after
\* the command name
Stream ==
    formatCommandValues(IF isRootCommand(values, before) THEN values ELSE Rest)

\* the tokens of the stream s before position k are valid: none is empty,
\* and binding them alone ends without an error
ValidBefore(s, k) ==
    LET b == Bind(before[result.commandName], SubSeq(s, 1, k - 1))
    IN  "" \notin Range(SubSeq(s, 1, k - 1)) /\ b.err = NoErr /\ ~b.panic

\* a flag of invalid structure: three dashes or more, or one dash before
\* more than one character
IllFormed(tok) ==
    isFlag(tok) /\ (HasPrefix(tok, "---") \/ (Len(tok) > 2 /\ ~HasPrefix(tok, "--")))

\* the first flag of invalid structure in the stream s, or 0
FirstIllFormed(s) ==
    LET I == {k \in 1..Len(s) : IllFormed(s[k])}
    IN  IF I = {} THEN 0 ELSE CHOOSE k \in I : \A j \in I : k <= j

\* the first flag of the stream s that names no declared flag of cfg, or 0
FirstUndeclared(cfg, s) ==
    LET I == {k \in 1..Len(s) : isFlag(s[k]) /\ FlagNamed(cfg, s[k]) = ""}
    IN  IF I = {} THEN 0 ELSE CHOOSE k \in I : \A j \in I : k <= j

\* C10: whenever a token of the resolved command's token stream is a flag
\* of invalid structure, or a well-formed short or long flag that names no
\* declared flag, reached after valid flags and values, Parse fails with
\* UnknownFlag whose Name is that normalized token as written, leading
\* dashes included.
C10_UnknownFlagAsWritten ==
    (Parsed /\ result.commandName \in DOMAIN before) =>
        LET s == Stream
            m == FirstIllFormed(s)
            u == FirstUndeclared(before[result.commandName], s)
        IN  IF m # 0
            THEN result.kind = "err" /\ result.err = UnknownFlag(s[m])
            ELSE (u # 0 /\ ValidBefore(s, u))
                     => (result.kind = "err" /\ result.err = UnknownFlag(s[u]))

\* C10 witness: the -e that splitting -version produces is reported after
\* a valid flag, its value and the -v of the cluster
C10_SplitLetterUnknown ==
    /\ Parsed
    /\ values = <<"-V", "1.0.1", "-version">>
    /\ result.err = UnknownFlag("-e")

---------------------------------------------------------------------------
(* Registration: the schemas that Register, AddArg and AddFlag build.      *)

\* the name under which AddArg registers an argument declared as name
RegisteredName(name) ==
    IF isVariadicArgument(removeWhitespaces(name)).ok
    THEN isVariadicArgument(removeWhitespaces(name)).argName
    ELSE removeWhitespaces(name)

\* no name occurs twice in the ordered argument list
NoNameTwice(cfg) ==
    \A i, j \in 1..Len(cfg.ArgNames) : cfg.ArgNames[i] = cfg.ArgNames[j] => i = j

\* C11 as stated: Register, AddArg and AddFlag with a name that is already
\* registered leave the registry and the command's schema unchanged, for
\* every name, variadic names ending in ... included, so that no name
\* occurs twice in the ordered argument list.
C11_RegistrationIdempotent ==
    [][/\ \A name \in CommandNames :
              (name \in DOMAIN registry /\ DoRegister(name)) => registry' = registry
       /\ \A cmd \in DOMAIN registry :
              /\ \A a \in ArgDecls :
                     (/\ RegisteredName(a[1]) \in DOMAIN registry[cmd].Args
                      /\ DoAddArg(cmd, a[1], a[2])) => registry' = registry
              /\ \A f \in FlagDecls :
                     (/\ f[1] \in DOMAIN registry[cmd].Flags
                      /\ DoAddFlag(cmd, f[1], f[2], f[3])) => registry' = registry
       /\ \A cmd \in DOMAIN registry' : NoNameTwice(registry'[cmd])]_vars

\* at most one flag of the command carries each short name, and the
\* short-name map leads from a flag's short name to that flag
ShortNamesUnique(cfg) ==
    \A f \in DOMAIN cfg.Flags :
        cfg.Flags[f].ShortName # "" =>
            /\ \A g \in DOMAIN cfg.Flags :
                   cfg.Flags[g].ShortName = cfg.Flags[f].ShortName => g = f
            /\ cfg.Flags[f].ShortName \in DOMAIN cfg.flagsShort
            /\ cfg.flagsShort[cfg.Flags[f].ShortName] = f

\* at most one argument is variadic, and it is the last of the ordered list
VariadicLast(cfg) ==
    \A i \in 1..Len(cfg.ArgNames) :
        cfg.Args[cfg.ArgNames[i]].isVariadic => i = Len(cfg.ArgNames)

\* C15 as stated: after any sequence of Register, AddFlag and AddArg calls
\* no two flags of a command carry the same short name, the short-name map
\* entry of a flag's short name points to that flag, at most one argument is
\* variadic and a variadic argument is the last of the ordered list.
C15_StructuralInvariants ==
    \A cmd \in DOMAIN registry :
        ShortNamesUnique(registry[cmd]) /\ VariadicLast(registry[cmd])

---------------------------------------------------------------------------
(* Coercion of positional tokens: Parse calls on a root command whose      *)
(* arguments are count (int), name (string) and tags... (strings).         *)

CoerceRegistry ==
    WithArg(WithArg(WithArg(Register(NewRegistry, ""),
        "", "count", IntV(0)),
        "", "name", StrV("")),
        "", "tags...", StrV(""))

CoerceTokens == {"5", "7", "bob", "al"}

InitCoerce == InitWith({CoerceRegistry})

NextCoerce == Fresh /\ \E vs \in Vectors(CoerceTokens, MaxTokens) : DoParse(vs)

SpecCoerce == InitCoerce /\ [][NextCoerce]_vars

\* the value binding the token tok leaves in an argument that held v: the
\* coerced token, appended to what a variadic argument holds
BoundValue(a, tok) ==
    IF a.isVariadic
    THEN SliceV(ConvertKind(a.defaultValue),
                (IF a.value = Nil THEN <<>> ELSE a.value.l)
                    \o <<convert(tok, a.defaultValue).rv>>)
    ELSE convert(tok, a.defaultValue).rv

\* C12 as stated: a positional token is coerced only against the
\* declaration it binds to (the first unbound non-variadic argument, or the
\* trailing variadic argument): when the tokens before it are bound and it
\* can be coerced to that declaration's type, it is bound, whether or not it
\* could be coerced to the type of an earlier argument; with count (int) and
\* name (string), the tokens 5 bob bind count=5 and name="bob".
C12_CoercedAgainstItsDeclaration ==
    Parsed =>
        \A k \in 1..Len(values) :
            LET cfg == before[""]
                d == SuppliedFor(cfg, values, k)
                pre == Parse(before, SubSeq(values, 1, k - 1)).registry[""]
                out == Parse(before, SubSeq(values, 1, k))
            IN  (/\ d.name # ""
                 /\ ~d.flag
                 /\ BoundBefore(k)
                 /\ convert(values[k], cfg.Args[d.name].defaultValue).err = NoErr)
                    => /\ out.result.kind = "ok"
                       /\ out.registry[""].Args[d.name].value
                              = BoundValue(pre.Args[d.name], values[k])

---------------------------------------------------------------------------
(* Lookahead: Parse calls on the registry of setup() in which non-boolean  *)
(* flags are followed by values, by flags, or by nothing.                  *)

LookaheadTokens == {"--version", "-V", "1.0", "--dir", "--force", "-v"}

InitLookahead == InitWith({SetupRegistry})

NextLookahead == Fresh /\ \E vs \in Vectors(LookaheadTokens, MaxTokens) : DoParse(vs)

SpecLookahead == InitLookahead /\ [][NextLookahead]_vars

\* the token at position k of vs names a declared flag of cfg that is not
\* boolean, and the token after it is a flag
FlagBeforeFlag(cfg, vs, k) ==
    /\ k < Len(vs)
    /\ isFlag(vs[k])
    /\ FlagNamed(cfg, vs[k]) # ""
    /\ cfg.Flags[FlagNamed(cfg, vs[k])].defaultValue.t # "bool"
    /\ isFlag(vs[k + 1])

\* C13 as stated: when a non-boolean flag token is immediately followed by
\* a token that is itself a flag, the flag is left unbound for this
\* occurrence: the following token is not consumed, the flag's value stays
\* as it was, and binding continues with the following token processed as a
\* flag in its own right, so the outcome is that of the same tokens without
\* the non-boolean flag token.
C13_FlagBeforeFlagUnbound ==
    Parsed =>
        \A k \in 1..Len(values) :
            (FlagBeforeFlag(before[""], values, k) /\ BoundBefore(k)) =>
                Parse(before, SubSeq(values, 1, k + 1))
                    = Parse(before, SubSeq(values, 1, k - 1) \o <<values[k + 1]>>)

---------------------------------------------------------------------------
(* Repeated Parse calls on one registry, whose declarations are ints and   *)
(* choice sets; the calls succeed or fail.                                 *)

\* the most Parse calls made on the registry
MaxParses == 2

InitRepeat == InitWith({ChoiceRegistry})

NextRepeat ==
    calls < MaxParses /\ \E vs \in Vectors(ChoiceTokens, MaxArgv) : DoParse(vs)

SpecRepeat == InitRepeat /\ [][NextRepeat]_vars

\* the value v has the scalar type of the default dv
ScalarMatches(v, dv) == v.t = ConvertKind(dv)

\* the value v is an element of the choice set dv, when dv is one
InChoices(v, dv) == dv.t = "slice" => \E e \in 1..Len(dv.l) : dv.l[e] = v

\* a bound value matches its declaration: its type, or each element's for
\* a variadic argument, is the default's scalar type, and it is an element
\* of the default when the default is a choice set
MatchesDeclaration(a) ==
    a.value # Nil =>
        IF a.isVariadic
        THEN /\ a.value.t = "slice"
             /\ \A e \in 1..Len(a.value.l) :
                    ScalarMatches(a.value.l[e], a.defaultValue)
                        /\ InChoices(a.value.l[e], a.defaultValue)
        ELSE ScalarMatches(a.value, a.defaultValue) /\ InChoices(a.value, a.defaultValue)

\* C14 as stated: in every state reached by registration calls followed by
\* any number of Parse calls, successful or failed, every bound value
\* type-matches the scalar type of its declaration's default (each element,
\* for a variadic argument), and every bound value of a declaration whose
\* default is a choice set equals one element of that set.
C14_BoundValuesMatch ==
    \A cmd \in DOMAIN registry :
        /\ \A a \in DOMAIN registry[cmd].Args : MatchesDeclaration(registry[cmd].Args[a])
        /\ \A f \in DOMAIN registry[cmd].Flags : MatchesDeclaration(registry[cmd].Flags[f])

---------------------------------------------------------------------------
(* The end of the loop of Parse.                                           *)

\* the tokens of the stream the loop of Parse had not taken when it ended
Unprocessed == Bind(before[result.commandName], Stream).rest

\* C16 as stated: Parse terminates, and a Parse call that succeeds has
\* processed every token of the normalized stream: no token, an empty
\* string the caller supplied included, makes it skip the tokens after it.
C16_EveryTokenProcessed ==
    (Parsed /\ result.kind = "ok") => Unprocessed = <<>>

---------------------------------------------------------------------------
(* Timestamps: Parse calls on a root command with an argument and a flag   *)
(* whose defaults are of type time.Time.                                   *)

TimeRegistry ==
    WithFlag(WithArg(Register(NewRegistry, ""),
        "", "when", TimeV(1, 1, 1, 0, 0)),
        "", "at", "a", TimeV(1, 1, 1, 0, 0))

TimeTokens ==
    {"2020-05-17 15:30", "2020-05-17 03:30", "2020-05-17 12:00", "2020-05-17 00:59",
     "2020-5-17 03:30", "2020-02-30 03:30", "2020-05-17 23:59", "--at"}

InitTime == InitWith({TimeRegistry})

NextTime == Fresh /\ \E vs \in Vectors(TimeTokens, MaxTokens) : DoParse(vs)

SpecTime == InitTime /\ [][NextTime]_vars

\* the token has the form YYYY-MM-DD hh:mm, zero-padded, of a day of the
\* calendar and a time of the twenty-four-hour clock
IsTimestamp(tok) ==
    /\ Len(tok) = 16
    /\ \A k \in 1..16 :
           IF k \in {5, 8} THEN Char(tok, k) = "-"
           ELSE IF k = 11 THEN Char(tok, k) = " "
           ELSE IF k = 14 THEN Char(tok, k) = ":"
           ELSE IsDigit(Char(tok, k))
    /\ DecimalValue(SubSeq(tok, 6, 7)) \in 1..12
    /\ DecimalValue(SubSeq(tok, 9, 10))
           \in 1..daysIn(DecimalValue(SubSeq(tok, 6, 7)), DecimalValue(SubSeq(tok, 1, 4)))
    /\ DecimalValue(SubSeq(tok, 12, 13)) \in 0..23
    /\ DecimalValue(SubSeq(tok, 15, 16)) \in 0..59

\* C17 as stated: the coercion of a token to a timestamp accepts exactly
\* the zero-padded twenty-four-hour form YYYY-MM-DD hh:mm, such as
\* 2020-05-17 15:30, and rejects every other token: Parse accepts a token
\* supplied for a declaration of type time.Time if and only if the token
\* has that form.
C17_TimestampForm ==
    Parsed =>
        \A k \in 1..Len(values) :
            LET cfg == before[""]
                d == SuppliedFor(cfg, values, k)
                out == Parse(before, SubSeq(values, 1, k)).result
            IN  (/\ d.name # ""
                 /\ DefaultOf(cfg, d).t = "time.Time"
                 /\ BoundBeforeSupply(d, k))
                    => (out.kind = "ok" <=> IsTimestamp(values[k]))

---------------------------------------------------------------------------
(* What a failed coercion leaves in a flag.                                *)

\* Arg.AsInt: the value when it is an int, the default otherwise (0 when
\* the default is no int either)
AsInt(a) ==
    IF a.value.t = "int" THEN a.value.i
    ELSE IF a.defaultValue.t = "int" THEN a.defaultValue.i ELSE 0

\* C18 as stated: when the token supplied as the value of a non-boolean
\* flag cannot be coerced to the flag's type, the failed Parse leaves the
\* value stored in the flag as it was before the flag was met, and the
\* typed accessor returns what it returned before: the value bound
\* earlier, or the default.
C18_FailedCoercionKeepsValue ==
    Parsed =>
        \A k \in 1..Len(values) :
            LET cfg == before[""]
                d == SuppliedFor(cfg, values, k)
                pre == Parse(before, SubSeq(values, 1, k - 2)).registry[""]
                post == Parse(before, SubSeq(values, 1, k)).registry[""]
            IN  (/\ d.name # ""
                 /\ d.flag
                 /\ BoundBeforeSupply(d, k)
                 /\ convert(values[k], DefaultOf(cfg, d)).err # NoErr)
                    => /\ post.Flags[d.name].value = pre.Flags[d.name].value
                       /\ AsInt(post.Flags[d.name]) = AsInt(pre.Flags[d.name])

===========================================================================
